---- MODULE Spec2Model ----
(***************************************************************************)
(* Model of the CRUD scaffold's core:                                      *)
(*   - app/lib/service.py      Service: authorize_* hook, then repository  *)
(*   - tests/unit/utils.py     GenericMockRepository over a shared dict    *)
(*   - app/lib/dto.py          factory(): DTO (schema) projection          *)
(* Entity instances are Python objects: they live in a heap and are passed *)
(* and stored by reference, so the instance a caller holds and the         *)
(* instance the repository stores may be one and the same object.          *)
(***************************************************************************)
EXTENDS Integers, Sequences, FiniteSets, TLC

\* ----------------------------------------------------------------- bounds
MaxId == 3
MaxTime == 1
MaxCols == 2
MaxInst == 2

\* ------------------------------------------------------- values and types
\* Python None (an unassigned identity, no entity).
None == 0
\* An attribute that is absent from the instance (never set, or deleted).
Unset == -1

\* The entity instances of the model: the caller's and the stored ones.
Refs == {1, 2}
Ids == 1..MaxId
Time == 0..MaxTime
Names == {"a", "b"}

\* Outcomes of a call.
Ok == "ok"
Pending == "pending"
NotFound == "NotFound"
IdentityConflict == "AssertionError"
AttributeError == "AttributeError"
Unauthorized == "UnauthorizedException"

VARIABLES
    heap,        \* entity instances: Refs -> [alive, id, created, updated, name]
    collection,  \* GenericMockRepository.collection: sequence of [key, ref], insertion order
    clock,       \* the last reading of datetime.now()
    hooks,       \* "default": Service as written; "subclass": authorize_* overridden
    call,        \* the Service call in progress or last finished
    model,       \* dto.factory's entity class: its annotated columns, in order
    dto,         \* the DTO class dto.factory returned (or its failure)
    calls,       \* per column: how often its default callable has been invoked
    omitted,     \* per column: how many DTO instantiations left the field out
    seen,        \* per column: the default values DTO instances were given
    made         \* DTO instantiations so far, and the last one's result

repoVars == <<heap, collection, clock, hooks, call>>
dtoVars == <<model, dto, calls, omitted, seen, made>>
vars == <<heap, collection, clock, hooks, call, model, dto, calls, omitted, seen, made>>

\* ---------------------------------------------------------------- entities
Blank == [alive |-> FALSE, id |-> None, created |-> Unset, updated |-> Unset, name |-> "a"]

Alive(h) == {r \in Refs : h[r].alive}

\* AbstractRepository.get_id_attribute_value: the identity the item carries.
get_id_attribute_value(h, item) == h[item].id

\* ------------------------------------------------- the shared dict (utils.py:14)
Keys(c) == {c[i].key : i \in 1..Len(c)}

\* collection.get(id_)
CollectionGet(c, id_) ==
    IF id_ \in Keys(c)
    THEN c[CHOOSE i \in 1..Len(c) : c[i].key = id_].ref
    ELSE None

\* collection[id_] = data: an existing key keeps its place, a new one is appended
CollectionSet(c, id_, data) ==
    IF id_ \in Keys(c)
    THEN [i \in 1..Len(c) |-> IF c[i].key = id_ THEN [key |-> id_, ref |-> data] ELSE c[i]]
    ELSE Append(c, [key |-> id_, ref |-> data])

\* del collection[id_]
IsNotKey(id_, e) == e.key # id_
CollectionDel(c, id_) == SelectSeq(c, LAMBDA e : IsNotKey(id_, e))

\* list(collection.values())
CollectionValues(c) == [i \in 1..Len(c) |-> c[i].ref]

\* AbstractRepository.check_not_found: TRUE when the item is missing (raises).
check_not_found(item_or_none) == item_or_none = None

\* ------------------------------------------- GenericMockRepository (utils.py)
Raise(h, c, exc) ==
    [heap |-> h, collection |-> c, outcome |-> exc, ret |-> None, items |-> <<>>]

Return(h, c, item) ==
    [heap |-> h, collection |-> c, outcome |-> Ok, ret |-> item, items |-> <<>>]

\* (mutant) the assertion is gone: an identified instance is added again
add_unchecked(h, c, data, now, id_) ==
    LET h1 == [h EXCEPT ![data].created = now, ![data].updated = now]
        h2 == [h1 EXCEPT ![data].id = id_]
    IN  Return(h2, CollectionSet(c, id_, data), data)

\* add(data), with now = datetime.now() and id_ = self._id_factory()
add(h, c, data, now, id_) ==
    IF get_id_attribute_value(h, data) # None
    THEN Raise(h, c, IdentityConflict)
    ELSE LET h1 == [h EXCEPT ![data].created = now, ![data].updated = now]
             h2 == [h1 EXCEPT ![data].id = id_]
         IN  Return(h2, CollectionSet(c, id_, data), data)

\* (mutant) the item is returned but stays in the collection
delete_kept(h, c, id_) ==
    LET item == CollectionGet(c, id_)
    IN  IF check_not_found(item) THEN Raise(h, c, NotFound) ELSE Return(h, c, item)

\* delete(id_)
delete(h, c, id_) ==
    LET item == CollectionGet(c, id_)
    IN  IF check_not_found(item)
        THEN Raise(h, c, NotFound)
        ELSE Return(h, CollectionDel(c, id_), item)

\* get(id_)
get(h, c, id_) ==
    LET item == CollectionGet(c, id_)
    IN  IF check_not_found(item) THEN Raise(h, c, NotFound) ELSE Return(h, c, item)

\* list(*filters, **kwargs): filters and kwargs are not read
list(h, c, kw) ==
    [heap |-> h, collection |-> c, outcome |-> Ok, ret |-> None,
     items |-> CollectionValues(c)]

\* update(data), with now = datetime.now().  `del data.created` raises
\* AttributeError when data has no created; the loop copies every public
\* attribute left in data.__dict__ (id, updated, name) onto the stored item.
update(h, c, data, now) ==
    LET item == CollectionGet(c, get_id_attribute_value(h, data))
    IN  IF check_not_found(item) THEN Raise(h, c, NotFound)
        ELSE IF h[data].created = Unset THEN Raise(h, c, AttributeError)
        ELSE LET h1 == [h EXCEPT ![data].created = Unset]
                 h2 == [h1 EXCEPT ![data].updated = now]
                 h3 == [h2 EXCEPT ![item].id = h2[data].id]
                 h4 == [h3 EXCEPT ![item].updated = h3[data].updated]
                 h5 == [h4 EXCEPT ![item].name = h4[data].name]
             IN  Return(h5, c, item)

\* (mutant) an identified instance that is not stored is created
upsert_creating(h, c, data, now, id_) ==
    IF get_id_attribute_value(h, data) = None
    THEN add(h, c, data, now, id_)
    ELSE IF get_id_attribute_value(h, data) \in Keys(c)
    THEN update(h, c, data, now)
    ELSE LET h1 == [h EXCEPT ![data].created = now, ![data].updated = now]
         IN  Return(h1, CollectionSet(c, h[data].id, data), data)

\* upsert(data)
upsert(h, c, data, now, id_) ==
    IF get_id_attribute_value(h, data) = None
    THEN add(h, c, data, now, id_)
    ELSE update(h, c, data, now)

\* ------------------------------------------------ Service hooks (service.py)
Allow(data) == [raised |-> FALSE, data |-> data]
Deny == [raised |-> TRUE, data |-> None]

\* (mutant) data that carries no identity is let through
authorize_item_id_unidentified(h, id_, data) ==
    get_id_attribute_value(h, data) # None /\ get_id_attribute_value(h, data) # id_

\* authorize_item_id: TRUE when it raises UnauthorizedException
authorize_item_id(h, id_, data) == get_id_attribute_value(h, data) # id_

authorize_create(h, data) == Allow(data)
authorize_list == Allow(None)
authorize_update(h, id_, data) ==
    IF authorize_item_id(h, id_, data) THEN Deny ELSE Allow(data)
authorize_upsert(h, id_, data) ==
    IF authorize_item_id(h, id_, data) THEN Deny ELSE Allow(data)
authorize_get(id_) == Allow(None)
authorize_delete(id_) == Allow(None)

\* What a hook may do: the default as written, or, in a subclass, anything:
\* reject, or return any entity (data hooks) / return (id hooks).
DataHook(default) ==
    IF hooks = "default" THEN {default}
    ELSE {Deny} \cup {Allow(d) : d \in Alive(heap)}

IdHook(default) ==
    IF hooks = "default" THEN {default} ELSE {Deny, Allow(None)}

\* ------------------------------------------------------------ the call record
Idle ==
    [op |-> "none", id |-> None, data |-> None, kw |-> "",
     stage |-> "idle", auth |-> "none", hooked |-> None, invoked |-> FALSE, passed |-> None,
     outcome |-> Ok, ret |-> None, items |-> <<>>]

NoCall == call.stage \in {"idle", "done"}

\* The hook has run: either it raised (the call is over) or the call goes on
\* to the repository with the data the hook returned.
Authorized(op, id_, data, kw, r) ==
    IF r.raised
    THEN [Idle EXCEPT !.op = op, !.id = id_, !.data = data, !.kw = kw,
                      !.stage = "done", !.auth = "failed",
                      !.outcome = Unauthorized]
    ELSE [Idle EXCEPT !.op = op, !.id = id_, !.data = data, !.kw = kw,
                      !.stage = "authorized", !.auth = "passed",
                      !.hooked = r.data,
                      !.outcome = Pending]

\* The repository operation has run with `passed` and gave r.
Delegated(passed, r) ==
    [call EXCEPT !.stage = "done", !.invoked = TRUE, !.passed = passed,
                 !.outcome = r.outcome, !.ret = r.ret, !.items = r.items]

\* datetime.now(): the clock has not moved since the last reading, or it has
Now == {t \in Time : t = clock \/ t = clock + 1}

\* Identities are opaque values (uuid4() by default) that are only compared for
\* equality and used as keys: the identities something refers to, and one
\* identity nothing refers to yet, stand for all of them.
Known == ({heap[r].id : r \in Alive(heap)} \cup Keys(collection)) \ {None}
SomeId == {i \in Ids : i \in Known \/ \A j \in Ids : j < i => j \in Known}

\* ------------------------------------------------------------------ actions
RepoStart ==
    /\ heap = [r \in Refs |-> Blank]
    /\ collection = <<>>
    /\ clock = 0
    /\ call = Idle

\* The caller constructs an entity instance.
New(id_, name, created) ==
    /\ NoCall
    /\ \E r \in Refs :
        /\ ~heap[r].alive
        /\ \A q \in Refs : q < r => heap[q].alive
        /\ heap' = [heap EXCEPT ![r] =
              [alive |-> TRUE, id |-> id_, created |-> created,
               updated |-> Unset, name |-> name]]
    /\ UNCHANGED <<collection, clock, hooks, call>>
    /\ UNCHANGED dtoVars

\* The caller assigns to an attribute of an entity instance it passed to add or
\* was handed by add, get or list: an instance that is stored.
Held(r) == \E k \in 1..Len(collection) : collection[k].ref = r

Assign(h) ==
    /\ NoCall
    /\ heap' = h
    /\ heap' # heap
    /\ UNCHANGED <<collection, clock, hooks, call>>
    /\ UNCHANGED dtoVars

\* item.name = name
Assign_name(r, name) == Held(r) /\ Assign([heap EXCEPT ![r].name = name])

\* item.created = created
Assign_created(r, created) == Held(r) /\ Assign([heap EXCEPT ![r].created = created])

\* item.id = id_
Assign_id(r, id_) == Held(r) /\ Assign([heap EXCEPT ![r].id = id_])

\* Service.create, up to the first await's return: authorize_create
Service_create(data) ==
    /\ NoCall
    /\ \E r \in DataHook(authorize_create(heap, data)) :
        call' = Authorized("create", None, data, "", r)
    /\ UNCHANGED <<heap, collection, clock, hooks>>
    /\ UNCHANGED dtoVars

Service_list(kw) ==
    /\ NoCall
    /\ \E r \in IdHook(authorize_list) :
        call' = Authorized("list", None, None, kw, r)
    /\ UNCHANGED <<heap, collection, clock, hooks>>
    /\ UNCHANGED dtoVars

Service_update(id_, data) ==
    /\ NoCall
    /\ \E r \in DataHook(authorize_update(heap, id_, data)) :
        call' = Authorized("update", id_, data, "", r)
    /\ UNCHANGED <<heap, collection, clock, hooks>>
    /\ UNCHANGED dtoVars

Service_upsert(id_, data) ==
    /\ NoCall
    /\ \E r \in DataHook(authorize_upsert(heap, id_, data)) :
        call' = Authorized("upsert", id_, data, "", r)
    /\ UNCHANGED <<heap, collection, clock, hooks>>
    /\ UNCHANGED dtoVars

Service_get(id_) ==
    /\ NoCall
    /\ \E r \in IdHook(authorize_get(id_)) :
        call' = Authorized("get", id_, None, "", r)
    /\ UNCHANGED <<heap, collection, clock, hooks>>
    /\ UNCHANGED dtoVars

Service_delete(id_) ==
    /\ NoCall
    /\ \E r \in IdHook(authorize_delete(id_)) :
        call' = Authorized("delete", id_, None, "", r)
    /\ UNCHANGED <<heap, collection, clock, hooks>>
    /\ UNCHANGED dtoVars

\* The second await of each Service method: the repository operation.
Finish(passed, r) ==
    /\ heap' = r.heap
    /\ collection' = r.collection
    /\ call' = Delegated(passed, r)
    /\ UNCHANGED hooks
    /\ UNCHANGED dtoVars

Repository_add ==
    /\ call.stage = "authorized" /\ call.op = "create"
    /\ \E now \in Now, id_ \in SomeId :
        LET r == add(heap, collection, call.hooked, now, id_)
        IN  /\ Finish(call.hooked, r)
            /\ clock' = IF r.outcome = Ok THEN now ELSE clock

Repository_list ==
    /\ call.stage = "authorized" /\ call.op = "list"
    /\ Finish(None, list(heap, collection, call.kw))
    /\ UNCHANGED clock

\* (mutant) the caller's data is passed on, not what authorize_update returned
Repository_update_stale ==
    /\ call.stage = "authorized" /\ call.op = "update"
    /\ \E now \in Now :
        LET r == update(heap, collection, call.data, now)
        IN  /\ Finish(call.data, r)
            /\ clock' = IF r.outcome = Ok THEN now ELSE clock

Repository_update ==
    /\ call.stage = "authorized" /\ call.op = "update"
    /\ \E now \in Now :
        LET r == update(heap, collection, call.hooked, now)
        IN  /\ Finish(call.hooked, r)
            /\ clock' = IF r.outcome = Ok THEN now ELSE clock

Repository_upsert ==
    /\ call.stage = "authorized" /\ call.op = "upsert"
    /\ \E now \in Now, id_ \in SomeId :
        LET r == upsert(heap, collection, call.hooked, now, id_)
        IN  /\ Finish(call.hooked, r)
            /\ clock' = IF r.outcome = Ok THEN now ELSE clock

Repository_get ==
    /\ call.stage = "authorized" /\ call.op = "get"
    /\ Finish(call.id, get(heap, collection, call.id))
    /\ UNCHANGED clock

Repository_delete ==
    /\ call.stage = "authorized" /\ call.op = "delete"
    /\ Finish(call.id, delete(heap, collection, call.id))
    /\ UNCHANGED clock

\* ------------------------------------------------------------- dto.py
\* A column of the entity class, as dto.factory reads it:
\*   mode     column.info.get("dto"): "default" (no entry), Mode.read_only, Mode.private
\*   default  column.default: "None", a scalar (is_scalar), a callable
\*            (is_callable), or "other" (a SQL expression, a sequence)
\*   mapped   whether the annotation is Mapped[...], which declares the field's type
Modes == {"default", "read_only", "private"}
Defaults == {"None", "scalar", "callable", "other"}
Purposes == {"read", "write"}
Columns == [mode : Modes, default : Defaults, mapped : BOOLEAN]

\* FieldInfo(...): a required field, no default
Required == [required |-> TRUE, default |-> "absent", raises |-> FALSE]
\* FieldInfo(default=default.arg)
WithDefault == [required |-> FALSE, default |-> "value", raises |-> FALSE]
\* FieldInfo(default_factory=lambda: default.arg({}))
WithFactory == [required |-> FALSE, default |-> "factory", raises |-> FALSE]
\* raise ValueError("Unexpected default type")
Unexpected == [required |-> FALSE, default |-> "absent", raises |-> TRUE]

\* (mutant) the callable is run once, when the DTO class is built
_construct_field_info_eager(column, purpose) ==
    IF purpose = "read" \/ column.default = "None" THEN Required
    ELSE IF column.default = "scalar" THEN WithDefault
    ELSE IF column.default = "callable" THEN WithDefault
    ELSE Unexpected

\* (mutant) a default of an unexpected type is taken for no default
_construct_field_info_lenient(column, purpose) ==
    IF purpose = "read" \/ column.default = "None" THEN Required
    ELSE IF column.default = "scalar" THEN WithDefault
    ELSE IF column.default = "callable" THEN WithFactory
    ELSE Required

_construct_field_info(column, purpose) ==
    IF purpose = "read" \/ column.default = "None" THEN Required
    ELSE IF column.default = "scalar" THEN WithDefault
    ELSE IF column.default = "callable" THEN WithFactory
    ELSE Unexpected

\* (mutant) read_only is excluded whatever the purpose
_should_exclude_field_read_only(purpose, column) ==
    IF column.mode = "private" THEN TRUE
    ELSE IF column.mode = "read_only" THEN TRUE
    ELSE FALSE

_should_exclude_field(purpose, column) ==
    IF column.mode = "private" THEN TRUE
    ELSE IF purpose = "write" /\ column.mode = "read_only" THEN TRUE
    ELSE FALSE

NoDto == [status |-> "none", purpose |-> "none", fields |-> <<>>]

\* The loop of factory() from key on, dto_fields being what it has collected.
RECURSIVE Collect(_, _, _, _)
Collect(m, purpose, key, dto_fields) ==
    IF key > Len(m)
    THEN [status |-> "ok", purpose |-> purpose, fields |-> dto_fields]
    ELSE IF _should_exclude_field(purpose, m[key])
    THEN Collect(m, purpose, key + 1, dto_fields)
    ELSE IF ~m[key].mapped
    THEN Collect(m, purpose, key + 1, dto_fields)
    ELSE LET info == _construct_field_info(m[key], purpose)
         IN  IF info.raises
             THEN [status |-> "ValueError", purpose |-> purpose, fields |-> <<>>]
             ELSE Collect(m, purpose, key + 1,
                          Append(dto_fields, [key |-> key, info |-> info]))

\* factory(name, model, purpose): the name only labels the class
factory(m, purpose) == Collect(m, purpose, 1, <<>>)

FieldKeys(d) == {d.fields[i].key : i \in 1..Len(d.fields)}
FieldOf(d, key) == d.fields[CHOOSE i \in 1..Len(d.fields) : d.fields[i].key = key].info

Cols == 1..MaxCols
Models == UNION {[1..n -> Columns] : n \in 1..MaxCols}
Zero == [k \in Cols |-> 0]

DtoStart ==
    /\ dto = NoDto
    /\ calls = Zero
    /\ omitted = Zero
    /\ seen = [k \in Cols |-> {}]
    /\ made = [n |-> 0, last |-> "none"]

\* dto.factory is run on the entity class for one purpose.
Factory(purpose) ==
    /\ dto.status = "none"
    /\ dto' = factory(model, purpose)
    /\ UNCHANGED <<model, calls, omitted, seen, made>>
    /\ UNCHANGED repoVars

\* The DTO class is instantiated with values for the fields in `given`.  Every
\* field left out takes its FieldInfo's default: a required one is reported as
\* missing, a fixed value is used as it is, a default_factory is called.
Left(given) == FieldKeys(dto) \ given

Instantiate(given) ==
    /\ dto.status = "ok"
    /\ made.n < MaxInst
    /\ calls' = [k \in Cols |->
          IF k \in Left(given) /\ FieldOf(dto, k).default = "factory"
          THEN calls[k] + 1 ELSE calls[k]]
    /\ omitted' = [k \in Cols |-> IF k \in Left(given) THEN omitted[k] + 1 ELSE omitted[k]]
    /\ seen' = [k \in Cols |->
          IF k \notin Left(given) THEN seen[k]
          ELSE IF FieldOf(dto, k).default = "factory" THEN seen[k] \cup {calls[k] + 1}
          ELSE IF FieldOf(dto, k).default = "value" THEN seen[k] \cup {0}
          ELSE seen[k]]
    /\ made' = [n |-> made.n + 1,
                last |-> IF \E k \in Left(given) : FieldOf(dto, k).required
                         THEN "ValidationError" ELSE "ok"]
    /\ UNCHANGED <<model, dto>>
    /\ UNCHANGED repoVars

\* ------------------------------------------------------------ specifications
Init ==
    /\ RepoStart
    /\ hooks \in {"default", "subclass"}
    /\ model = <<>>
    /\ DtoStart

Next ==
    \/ \E i \in SomeId \cup {None}, n \in Names, t \in Time \cup {Unset} : New(i, n, t)
    \/ \E d \in Alive(heap) : Service_create(d)
    \/ \E k \in {"", "a", "b"} : Service_list(k)
    \/ \E i \in SomeId \cup {None}, d \in Alive(heap) : Service_update(i, d)
    \/ \E i \in SomeId \cup {None}, d \in Alive(heap) : Service_upsert(i, d)
    \/ \E i \in SomeId \cup {None} : Service_get(i)
    \/ \E i \in SomeId \cup {None} : Service_delete(i)
    \/ Repository_add
    \/ Repository_list
    \/ Repository_update
    \/ Repository_upsert
    \/ Repository_get
    \/ Repository_delete

\* The repository behind the Service.
Spec == Init /\ [][Next]_vars

\* The Service as written (the default hooks).
InitOwn ==
    /\ Init
    /\ hooks = "default"

\* add, get and list, through which a caller hands over and is handed entities,
\* and the caller's own changes to the instances it holds between calls.
NextOwn ==
    \/ New(None, "a", Unset)
    \/ \E r \in Refs, n \in Names : Assign_name(r, n)
    \/ \E r \in Refs, t \in Time : Assign_created(r, t)
    \/ \E r \in Refs, i \in SomeId \cup {None} : Assign_id(r, i)
    \/ \E d \in Alive(heap) : Service_create(d)
    \/ Service_list("")
    \/ \E i \in SomeId : Service_get(i)
    \/ Repository_add
    \/ Repository_list
    \/ Repository_get

\* The repository behind the Service, with a caller that also changes the
\* entity instances it holds between calls.
SpecOwn == InitOwn /\ [][NextOwn]_vars

InitDto ==
    /\ RepoStart
    /\ hooks = "default"
    /\ model \in Models
    /\ DtoStart

NextDto ==
    \/ \E p \in Purposes : Factory(p)
    \/ \E given \in SUBSET FieldKeys(dto) : Instantiate(given)

\* The DTO projection of every entity class of up to MaxCols columns.
SpecDto == InitDto /\ [][NextDto]_vars

\* ------------------------------------------------------------- observations
\* A Service method was entered in this step and its hook has run.
Entered ==
    /\ NoCall /\ call' # call
    /\ call'.stage \in {"authorized", "done"} /\ ~call'.invoked
\* The repository operation of the call in progress ran in this step.
Finished == call.stage = "authorized" /\ call'.stage = "done"
\* What the repository stores: each key with the state of the entity under it.
Stored(h, c) == [i \in 1..Len(c) |-> [key |-> c[i].key, ref |-> c[i].ref, item |-> h[c[i].ref]]]
Untouched == heap' = heap /\ collection' = collection

\* ------------------------------------------------------------------- claims
\* What C1 says of one step.
C1_Step ==
    (Entered /\ hooks = "default" /\ call'.op \in {"update", "upsert"}) =>
        IF heap[call'.data].id # call'.id
        THEN /\ call'.stage = "done"
             /\ call'.outcome = Unauthorized
             /\ Untouched
        ELSE /\ call'.stage = "authorized"
             /\ call'.outcome # Unauthorized
             /\ call'.hooked = call'.data

\* C1: with the default hooks, Service.update(id, data) and Service.upsert(id,
\* data) fail with Unauthorized whenever the identity data carries differs from
\* id (data without identity and id set included), the repository operation is
\* not invoked and heap and collection are as before the call; when the
\* identities are equal the hook raises nothing and the call goes on.
C1_UnauthorizedOnIdMismatch == [][C1_Step]_vars

C1_Witness ==
    /\ hooks = "default"
    /\ call.op = "update" /\ call.stage = "done" /\ call.outcome = Unauthorized
    /\ call.id \in Ids /\ heap[call.data].id \in Ids
    /\ collection # <<>>

\* What C2 says of every state.
C2_State ==
    /\ call.invoked => call.auth = "passed"
    /\ (call.invoked /\ call.op \in {"create", "update", "upsert"}) => call.passed = call.hooked
    /\ (call.invoked /\ call.op \in {"get", "delete"}) => call.passed = call.id
    /\ call.auth = "failed" => (~call.invoked /\ call.stage = "done")
    /\ call.stage = "authorized" => (call.auth = "passed" /\ ~call.invoked)

\* What C2 says of one step.
C2_Step ==
    /\ (Entered /\ call'.auth = "failed") => Untouched
    /\ Entered => Stored(heap', collection') = Stored(heap, collection)
    /\ Stored(heap', collection') # Stored(heap, collection) => (Finished /\ call'.invoked)
    /\ Finished => call'.op = call.op

\* C2: in each of the six Service operations the repository operation runs
\* only after the authorize_* hook has returned, it is given what the hook
\* returned (the data for create/update/upsert, the caller's id for get/delete),
\* and when the hook fails, whatever the hook is, the call ends there: the
\* repository operation is not invoked and nothing stored changes.  What is
\* stored changes only in the step that runs the repository operation.
C2_HookBeforeRepository == [](C2_State) /\ [][C2_Step]_vars

C2_Witness ==
    /\ hooks = "subclass"
    /\ call.invoked /\ call.op = "update" /\ call.outcome = Ok
    /\ call.hooked # call.data

C2_WitnessRejected ==
    /\ hooks = "subclass"
    /\ call.auth = "failed" /\ call.op = "delete" /\ call.id \in Keys(collection)

\* What C6 says of one step.
C6_Step ==
    (Finished /\ call.op = "create" /\ call'.outcome = Ok) =>
        LET e == call'.ret
        IN  /\ e = call.hooked
            /\ heap'[e].id \in Ids
            /\ heap'[e].id \notin Keys(collection)
            /\ heap'[e].created = heap'[e].updated
            /\ heap'[e].created \in Time
            /\ get(heap', collection', heap'[e].id).ret = e
            /\ \A i \in 1..Len(collection) :
                  /\ collection'[i] = collection[i]
                  /\ heap'[collection[i].ref] = heap[collection[i].ref]

\* C6 (as claimed): a successful add(e) gives e an identity that is no key of
\* the collection, stamps created = updated, stores e under that identity, and
\* leaves every entry stored before in place with its entity unchanged.
C6_AddNeverOverwrites == [][C6_Step]_vars

\* What C7 says of one step.
C7_Step ==
    (Finished /\ call.op = "create" /\ heap[call.hooked].id # None) =>
        /\ call'.outcome = IdentityConflict
        /\ call'.ret = None
        /\ Untouched

\* C7: add(e) with e carrying an identity fails (the assertion: AssertionError,
\* the contract's IdentityConflict) and leaves the collection and every
\* instance, e with its identity, created and updated included, as they were.
C7_AddIdentifiedFails == [][C7_Step]_vars

C7_Witness ==
    /\ call.op = "create" /\ call.invoked /\ call.outcome = IdentityConflict
    /\ heap[call.passed].id \in Keys(collection)

\* What C8 says of one step.
C8_Step ==
    Finished =>
        /\ (call.op \in {"get", "delete"} /\ call.id \notin Keys(collection)) =>
              (call'.outcome = NotFound /\ Untouched)
        /\ (call.op = "update" /\ heap[call.hooked].id \notin Keys(collection)) =>
              (call'.outcome = NotFound /\ Untouched)
        /\ (call.op = "delete" /\ call.id \in Keys(collection)) =>
              /\ call'.outcome = Ok
              /\ call'.ret = CollectionGet(collection, call.id)
              /\ Keys(collection') = Keys(collection) \ {call.id}
              /\ \A k \in Keys(collection') :
                    CollectionGet(collection', k) = CollectionGet(collection, k)
              /\ heap' = heap
              /\ get(heap', collection', call.id).outcome = NotFound

\* C8: get(id), delete(id) and update(e) with an identity that is no key of the
\* collection fail with NotFound and change nothing; delete(id) of a stored
\* identity returns the entity stored under it and removes that entry only, so
\* that get(id) on the resulting store fails with NotFound.
C8_NotFoundAndDelete == [][C8_Step]_vars

C8_Witness ==
    /\ call.op = "delete" /\ call.invoked /\ call.outcome = Ok
    /\ call.id \notin Keys(collection)
    /\ heap[call.ret].id = call.id
    /\ collection # <<>>

C8_WitnessNotFound ==
    /\ call.op = "update" /\ call.invoked /\ call.outcome = NotFound
    /\ heap[call.passed].id \in Ids
    /\ collection # <<>>

\* What C9 says of one step.
C9_Step ==
    (Finished /\ call.op = "update" /\ call'.outcome = Ok) =>
        LET e == call.hooked
            item == call'.ret
        IN  /\ item = CollectionGet(collection, heap[e].id)
            /\ heap'[item].created = heap[item].created
            /\ heap'[item].updated > heap[item].updated
            /\ heap'[item].name = heap[e].name
            /\ heap'[item].id = heap[e].id

\* C9 (as claimed): after a successful update(e) the stored entity's created
\* is what it was, its updated is greater than it was, and its other fields
\* are those e carried, whether or not e is the stored instance itself.
C9_UpdateKeepsCreated == [][C9_Step]_vars

\* What C10 says of one step.
C10_Step ==
    (Finished /\ call.op = "upsert") =>
        LET e == call.hooked
        IN  /\ \E now \in Now, id_ \in Ids :
                  LET r == IF heap[e].id = None
                           THEN add(heap, collection, e, now, id_)
                           ELSE update(heap, collection, e, now)
                  IN  /\ heap' = r.heap
                      /\ collection' = r.collection
                      /\ call'.outcome = r.outcome
                      /\ call'.ret = r.ret
            /\ (heap[e].id # None /\ heap[e].id \notin Keys(collection)) =>
                  (call'.outcome = NotFound /\ Untouched)

\* C10: upsert(e) does to the store, and returns or raises, what add(e) does
\* from the same state when e carries no identity, and what update(e) does when
\* it carries one (under the same clock reading and generated identity); an
\* identified e whose identity is not stored gives NotFound and creates nothing.
C10_UpsertDispatch == [][C10_Step]_vars

C10_Witness ==
    /\ call.op = "upsert" /\ call.invoked /\ call.outcome = NotFound
    /\ heap[call.passed].id \in Ids
    /\ heap[call.passed].id \notin Keys(collection)
    /\ collection # <<>>

C10_WitnessAdd ==
    /\ call.op = "upsert" /\ call.invoked /\ call.outcome = Ok
    /\ call.ret = call.passed
    /\ heap[call.ret].created = heap[call.ret].updated
    /\ Len(collection) = 2

\* ---------------------------------------------------------- claims on dto.py
\* What the visibility rules alone say of a column for a purpose.
Visible(column, purpose) ==
    \/ column.mode = "default"
    \/ column.mode = "read_only" /\ purpose = "read"

\* C3 (as claimed): the DTO holds exactly the columns the visibility rules admit:
\* private in none, read_only in the read DTO only, default in both.
C3_AsClaimed ==
    dto.status = "ok" =>
        \A k \in 1..Len(model) : k \in FieldKeys(dto) <=> Visible(model[k], dto.purpose)

\* C3 (amended): the same of every column annotated Mapped[...]; a column whose
\* annotation is not Mapped[...] is in no DTO, whatever its visibility.
C3_FieldsByVisibility ==
    dto.status = "ok" =>
        \A k \in 1..Len(model) :
            /\ model[k].mapped => (k \in FieldKeys(dto) <=> Visible(model[k], dto.purpose))
            /\ ~model[k].mapped => k \notin FieldKeys(dto)

C3_Witness ==
    /\ dto.status = "ok" /\ dto.purpose = "read"
    /\ Len(model) = 2
    /\ model[1].mode = "read_only" /\ model[1].mapped /\ 1 \in FieldKeys(dto)
    /\ model[2].mode = "private" /\ model[2].mapped /\ 2 \notin FieldKeys(dto)

\* C4: every field of a DTO is specified by purpose and default: in a read DTO
\* it is required and has no default; in a write DTO it is required when the
\* column has no default, optional with the fixed value when the default is a
\* scalar, and optional with a producer when it is a callable; the producer runs
\* once for each instantiation that leaves the field out and each run's value
\* goes to that instance alone, while a fixed value never runs anything.
C4_FieldInfoByDefault ==
    dto.status = "ok" =>
        \A k \in FieldKeys(dto) :
            LET column == model[k]
                info == FieldOf(dto, k)
            IN  /\ dto.purpose = "read" => (info.required /\ info.default = "absent")
                /\ (dto.purpose = "write" /\ column.default = "None") =>
                      (info.required /\ info.default = "absent")
                /\ (dto.purpose = "write" /\ column.default = "scalar") =>
                      /\ ~info.required /\ info.default = "value"
                      /\ calls[k] = 0
                      /\ seen[k] = IF omitted[k] > 0 THEN {0} ELSE {}
                /\ (dto.purpose = "write" /\ column.default = "callable") =>
                      /\ ~info.required /\ info.default = "factory"
                      /\ calls[k] = omitted[k]
                      /\ Cardinality(seen[k]) = omitted[k]
                /\ info.required => (calls[k] = 0 /\ seen[k] = {})

C4_Witness ==
    /\ dto.status = "ok" /\ dto.purpose = "write"
    /\ \E k \in FieldKeys(dto) :
          /\ model[k].default = "callable"
          /\ omitted[k] = 2 /\ calls[k] = 2 /\ Cardinality(seen[k]) = 2

\* C5 (as claimed): whenever a column has a default of an unexpected type,
\* factory fails, for either purpose and whatever the column's visibility.
C5_AsClaimed ==
    (dto.status # "none" /\ \E k \in 1..Len(model) : model[k].default = "other") =>
        dto.status = "ValueError"

\* C5 (amended): factory fails (ValueError) exactly when the purpose is write and
\* a column the write DTO takes in (visibility default, annotated Mapped[...])
\* has a default of an unexpected type; for the read purpose, and when every such
\* column is private, read_only or not Mapped[...], it returns a DTO.
C5_FailsOnIncludedWriteDefault ==
    dto.status # "none" =>
        /\ dto.status \in {"ok", "ValueError"}
        /\ dto.status = "ValueError" <=>
              /\ dto.purpose = "write"
              /\ \E k \in 1..Len(model) :
                    /\ model[k].default = "other"
                    /\ model[k].mode = "default"
                    /\ model[k].mapped

C5_Witness ==
    /\ dto.status = "ValueError" /\ dto.purpose = "write"
    /\ Len(model) = 2
    /\ model[1].default = "other" /\ model[1].mode = "private"
    /\ model[2].default = "other" /\ model[2].mode = "default"

\* The entity satisfies the keyword-equality constraint name = kw ("": none given).
Satisfies(h, kw, item) == kw = "" \/ h[item].name = kw

\* What C11 says of one step.
C11_Step ==
    (Finished /\ call.op = "list") =>
        /\ call'.outcome = Ok
        /\ call'.items =
              SelectSeq(CollectionValues(collection),
                        LAMBDA item : Satisfies(heap, call.kw, item))
        /\ Untouched

\* C11: list(filters, kwargs) returns exactly the stored entities that satisfy
\* every keyword-equality constraint given (all of them when none is given, the
\* empty sequence when none matches) and leaves heap and collection as they
\* were.
C11_ListAppliesConstraints == [][C11_Step]_vars

\* The caller, not the repository, changed an entity instance in this step.
CallerStep == NoCall /\ call' = call /\ heap' # heap

\* What C12 says of one step.
C12_Step ==
    CallerStep =>
        /\ collection' = collection
        /\ Stored(heap', collection') = Stored(heap, collection)

\* C12: a change the caller makes to an entity instance it holds (its name, its
\* created or its identity), outside any repository operation, changes neither
\* the key an entity is stored under nor what get and list give for the stored
\* entities: each key with the same entity in the same state as before.
C12_StoreOwnsState == [][C12_Step]_vars

====
